---- MODULE Spec2Model ----
(***************************************************************************)
(* The training orchestrator of face_analysis_pytorch (src/train.py):      *)
(* class Train, its constructor and run(), with the collaborators run()    *)
(* drives: the optimizer's parameter groups, the plateau scheduler         *)
(* (torch.optim.lr_scheduler.ReduceLROnPlateau), the early-stop monitor    *)
(* (optimizer/early_stop.py) and the checkpoint functions                  *)
(* (utils/model_loader.py).                                                *)
(*                                                                         *)
(* Numbers.  A validation score is an integer count of 1e-4 units (the     *)
(* code rounds scores to 4 decimals).  A learning rate is kept as its      *)
(* negative decimal exponent: lr = 10^(-e), so lr/10 and lr*0.1 are e+1.   *)
(* float('Inf') is the integer Inf, larger than every score.               *)
(*                                                                         *)
(* Names that train.py uses without defining or importing them             *)
(* (self.ATTR_HEAD at line 33, get_val_pair at lines 62-64) are taken to   *)
(* be supplied by the rest of the repository: the model starts at line 48. *)
(***************************************************************************)
EXTENDS Integers, Sequences, FiniteSets, TLC

\* ------------------------------------------------------------- bounds
MaxEpochs == 4
MaxSteps == 20
EarlyStopPatience == 1
InitialLrExp == 1
MaxObs == 11
LongLen == 200
MaxValLen == 10

\* ------------------------------------------------- program constants
Inf == 1000000
TensorboardDivisor == 100
EvaluateDivisor == 5
SchedCooldown == 1
SchedThresholdPerMille == 1
SchedEpsExp == 8
ScoreUnits == 10000

Attributes == {"race", "gender", "age", "recognition"}
Modes == {"max", "min"}
Scores == {5000, 5500, 6000}
TrainLens == {1, 2, 10}
EpochCounts == 0..MaxEpochs
ReduceLrLists == {{}, {0}, {0, 1}}
ParamGroups == 1..3

Max(a, b) == IF a >= b THEN a ELSE b

VARIABLES
    cfg,          \* self.config: the run configuration, read-only
    pc,           \* where the program is: new, constructed, batch, final, done, error
    weights,      \* self.weights is not None
    loads,        \* the load_state calls made so far, in order
    restored,     \* what model, head and optimizer hold: fresh or a checkpoint's state
    lr,           \* optimizer.param_groups[g]['lr'], as a negative decimal exponent
    sched,        \* self.scheduler (exists only in plateau mode)
    early_stop,   \* self.early_stop
    modelMode,    \* self.model.training: "train" or "eval"
    headMode,     \* self.head.training
    epoch,        \* the epoch loop's index
    batch,        \* batches of the current epoch already pulled
    step,         \* run()'s local step
    val_acc,      \* run()'s local val_acc
    best_acc,     \* run()'s local best_acc (a pair after line 154)
    best_step,    \* run()'s local best_step
    updates,      \* optimizer.step() calls so far
    updateModes,  \* model/head modes at the most recent optimizer.step()
    emitted,      \* what the most recent step read `step` for: events and checkpoints
    ckpt,         \* the checkpoint save_state wrote last
    nSaves,       \* save_state calls so far
    evalCount,    \* evaluations that returned a score so far
    evalsBefore,  \* scores returned by the evaluations before the latest one
    lastEval,     \* the latest evaluation: its score, its step, whether it saved
    evalAttempts, \* evaluate() calls so far, completed or not
    lastBranch,   \* the learning-rate branch the latest end of epoch took
    selfReduces,  \* reduce_lr() calls so far
    schedSteps,   \* scheduler.step() calls so far
    schedLast,    \* the score of the latest scheduler.step() call
    esCalls,      \* early_stop() calls so far
    stopEpoch,    \* the epoch index at which early_stop.stop was first seen true
    passes,       \* passes over the training stream completed
    raisedIn,     \* where run() raised: none, train_step, end_of_epoch, final
    obs,          \* scheduler harness: scores fed to scheduler.step so far
    plateau,      \* scheduler harness: the run of non-improving scores so far
    weightVec,    \* self.weights: the class-weight vector, <<>> for None
    lossKw,       \* the weight keyword of the latest training loss call
    valLossKw,    \* the weight keyword of the latest validation loss call
    running_loss, \* run()'s local running_loss: the updates whose losses it sums
    loss_board,   \* the latest train_loss event: the sum's terms and its divisor
    valStream,    \* evaluation harness: the batches the validation loader yields
    evalOut       \* evaluation harness: what evaluate_attribute returned

vars == <<cfg, pc, weights, loads, restored, lr, sched, early_stop, modelMode,
          headMode, epoch, batch, step, val_acc, best_acc, best_step, updates,
          updateModes, emitted, ckpt, nSaves, evalCount, evalsBefore, lastEval,
          evalAttempts, lastBranch, selfReduces, schedSteps, schedLast, esCalls,
          stopEpoch, passes, raisedIn, obs, plateau, weightVec, lossKw, valLossKw,
          running_loss, loss_board, valStream, evalOut>>

\* ------------------------------------------------ cadences (lines 84-86)
TensorboardEvery(len) == Max(len \div TensorboardDivisor, 1)

EvaluateEvery(len) == Max(len \div EvaluateDivisor, 1)

\* line 128: a train_loss event is due
TensorboardDue(s, len) == s % TensorboardEvery(len) = 0

\* line 133 without its step != 0 test
EvalDue_AtZero(s, len) == s % EvaluateEvery(len) = 0

\* line 133: an in-loop evaluation is due
EvalDue(s, len) == s % EvaluateEvery(len) = 0 /\ s # 0

\* ---------------------------------------- best score (lines 102-105, 157-164)
\* lines 103-105 without the sign change of line 105
InitialBest_NoNegate(mode) == Inf

InitialBest(mode) == IF mode = "max" THEN Inf * (0 - 1) ELSE Inf

\* lines 158-159 with non-strict comparisons
Improved_NonStrict(mode, val, best) ==
    \/ mode = "max" /\ val >= best
    \/ mode = "min" /\ val <= best

Improved(mode, val, best) ==
    \/ mode = "max" /\ val > best
    \/ mode = "min" /\ val < best

\* save_model: the (best_acc, best_step) it returns and whether it called save_state
SaveModel(mode, val, best, s, bestStep) ==
    IF Improved(mode, val, best)
    THEN [best_acc |-> val, best_step |-> s, saved |-> TRUE]
    ELSE [best_acc |-> best, best_step |-> bestStep, saved |-> FALSE]

\* ------------------------------------------ learning rate (lines 143-146, 166-168)
\* line 143 without its `not lr_plateau` test
UseFixedReduction_AnyMode(e, c) == e \in c.reduce_lr

UseFixedReduction(e, c) == e \in c.reduce_lr /\ ~c.lr_plateau

ReduceLr(l) == [g \in ParamGroups |-> l[g] + 1]

\* line 90 without its patience argument: the library default
SchedPatience_Default == 10

\* line 90: patience=3
SchedPatience == 3

\* -------------- ReduceLROnPlateau as constructed at lines 88-90 (mode, factor 0.1,
\* patience 3, threshold 0.001 relative, cooldown 1, min_lr 0, eps 1e-8)
NoScheduler ==
    [exists |-> FALSE, mode |-> "max", best |-> 0, num_bad_epochs |-> 0,
     cooldown_counter |-> 0]

\* _init_is_better: mode_worse is -inf for max, inf for min
ModeWorse(mode) == IF mode = "max" THEN 0 - Inf ELSE Inf

NewScheduler(mode) ==
    [exists |-> TRUE, mode |-> mode, best |-> ModeWorse(mode),
     num_bad_epochs |-> 0, cooldown_counter |-> 0]

\* is_better, threshold_mode 'rel': a > best*(1+threshold), a < best*(1-threshold)
SchedIsBetter(mode, a, best) ==
    IF mode = "max"
    THEN a * 1000 > best * (1000 + SchedThresholdPerMille)
    ELSE a * 1000 < best * (1000 - SchedThresholdPerMille)

\* step(metrics): the scheduler after the call and whether it called _reduce_lr
SchedStep(s, metric) ==
    LET better == SchedIsBetter(s.mode, metric, s.best)
        best1 == IF better THEN metric ELSE s.best
        bad1 == IF better THEN 0 ELSE s.num_bad_epochs + 1
        inCooldown == s.cooldown_counter > 0
        cool2 == IF inCooldown THEN s.cooldown_counter - 1 ELSE s.cooldown_counter
        bad2 == IF inCooldown THEN 0 ELSE bad1
        reduce == bad2 > SchedPatience
    IN  [sched |-> [s EXCEPT !.best = best1,
                             !.num_bad_epochs = IF reduce THEN 0 ELSE bad2,
                             !.cooldown_counter =
                                 IF reduce THEN SchedCooldown ELSE cool2],
         reduce |-> reduce]

\* _reduce_lr: new = old*0.1, applied to a group only if old - new > eps = 1e-8,
\* that is 9*10^-(e+1) > 10^-8, that is e < 8
SchedReduceLr(l) ==
    [g \in ParamGroups |-> IF l[g] < SchedEpsExp THEN l[g] + 1 ELSE l[g]]

\* ----------------------------- EarlyStop (optimizer/early_stop.py, from spec 4.5)
NewEarlyStop(mode) ==
    [mode |-> mode, best |-> IF mode = "max" THEN 0 - Inf ELSE Inf, stall |-> 0,
     stop |-> FALSE]

EarlyStopCall(es, score) ==
    LET better == IF es.mode = "max" THEN score > es.best ELSE score < es.best
        stall1 == IF better THEN 0 ELSE es.stall + 1
    IN  [es EXCEPT !.best = IF better THEN score ELSE es.best,
                   !.stall = stall1,
                   !.stop = es.stop \/ stall1 > EarlyStopPatience]

\* ------------------- load_state (utils/model_loader.py, from spec 4.3): restores
\* model and head weights and, when restore_optimizer, the optimizer it was given
Fresh == [model |-> "fresh", head |-> "fresh", optimizer |-> "fresh"]

LoadState(r, call) ==
    [model |-> call.path, head |-> call.path,
     optimizer |-> IF call.flag /\ call.optimizer THEN call.path ELSE r.optimizer]

\* the calls of lines 75 and 79: (path, optimizer passed or None, fifth argument)
ResumeCall == [path |-> "resume", optimizer |-> TRUE, flag |-> FALSE]

PretrainedCall == [path |-> "pretrained", optimizer |-> FALSE, flag |-> TRUE]

\* lines 73-79: the load_state calls of the constructor, in order
LoadCalls(c) ==
    (IF c.resume THEN <<ResumeCall>> ELSE <<>>) \o
    (IF c.pretrained THEN <<PretrainedCall>> ELSE <<>>)

RECURSIVE ApplyLoads(_, _)
ApplyLoads(r, calls) ==
    IF calls = <<>> THEN r ELSE ApplyLoads(LoadState(r, Head(calls)), Tail(calls))

\* ------------------------------------------------------------ events
Event(key, s, u, inloop) == [key |-> key, step |-> s, updates |-> u, inloop |-> inloop]

NoCheckpoint == [exists |-> FALSE, score |-> 0, step |-> 0, updates |-> 0, final |-> FALSE]

NoEval ==
    [score |-> 0, step |-> 0, saved |-> FALSE, final |-> FALSE,
     modes |-> <<"train", "train">>]

\* evaluate_attribute, lines 200-201: the modes of model and head during the pass
EvaluateAttributeModes == <<"eval", "eval">>

\* no score observed yet: stale counts the latest consecutive scores that did not
\* improve on every score before them, reduced the _reduce_lr calls among them
NoPlateau == [seen |-> {}, stale |-> 0, reduced |-> 0, total |-> 0]

Scalar(acc) == [pair |-> FALSE, acc |-> acc, step |-> 0]

\* ------------------------------------------- class weights (lines 50-55)
\* line 51 with 'race' left out of the list
HasClassWeights_GenderOnly(attribute) == attribute = "gender"

\* line 51: the attributes that get a class-weight vector
HasClassWeights(attribute) == attribute \in {"race", "gender"}

\* np.max over the class counts
MaxCount(counts) ==
    CHOOSE c \in {counts[i] : i \in 1..Len(counts)} :
        \A i \in 1..Len(counts) : counts[i] <= c

\* lines 52-53: np.max(counts) / counts, each weight kept as the exact fraction
ClassWeights(counts) ==
    [i \in 1..Len(counts) |-> [num |-> MaxCount(counts), den |-> counts[i]]]

\* line 50: self.weights = None
NoWeights == <<>>

\* no loss call made yet
NoLossKw == [made |-> FALSE, given |-> FALSE, weight |-> NoWeights]

\* lines 118-121: the training loss gets weight=self.weights unless it is None
TrainLossKw(exists, w) ==
    IF exists THEN [made |-> TRUE, given |-> TRUE, weight |-> w]
              ELSE [made |-> TRUE, given |-> FALSE, weight |-> NoWeights]

\* lines 217-220: the same choice for the validation loss
ValLossKw(exists, w) ==
    IF exists THEN [made |-> TRUE, given |-> TRUE, weight |-> w]
              ELSE [made |-> TRUE, given |-> FALSE, weight |-> NoWeights]

\* ------------------------------------------ the train_loss event (lines 124-131)
\* line 124: running_loss += loss.item(), the loss of update u
AddLoss(running, u) == Append(running, u)

\* lines 129-130: loss_board = running_loss / tensorboard_loss_every
LossBoard(running, every) == [terms |-> running, divisor |-> every]

NoBoard == [terms |-> <<>>, divisor |-> 0]

NoEvalOut == [made |-> FALSE, accuracy |-> 0, loss |-> <<>>, kw |-> NoLossKw]

\* ------------------------------------- evaluate_attribute (lines 199-236)
\* A validation batch is a sequence of samples [outputs, labels]: what the head
\* returned for the image and the image's label.  For gender and race outputs
\* is one logit per class and labels the class index; for age outputs is one
\* real per output dimension, counted in halves (5 is 2.5), and labels one
\* integer per dimension.
RECURSIVE Cat(_)
\* lines 213-214: torch.cat of every batch, in loader order
Cat(batches) ==
    IF batches = <<>> THEN <<>> ELSE Head(batches) \o Cat(Tail(batches))

\* lines 206-214 keeping the latest batch only
AllOutputs_LastBatch(batches) == batches[Len(batches)]

\* lines 206-214: y_true and all_outputs after the loop
AllOutputs(batches) == Cat(batches)

\* lines 217-220 with the concatenated tensors
LossBatch_All(batches) == Cat(batches)

\* lines 217-220: outputs and labels are the loop variables, so the last batch
LossBatch(batches) == batches[Len(batches)]

\* line 230, torch.max(all_outputs, 1): the index of the first greatest logit
ArgMax(outputs) ==
    CHOOSE k \in 0..(Len(outputs) - 1) :
        /\ \A j \in 1..Len(outputs) : outputs[j] <= outputs[k + 1]
        /\ \A j \in 1..k : outputs[j] < outputs[k + 1]

\* rounding a count of halves to the nearest integer, halves away from zero
RoundHalves_HalfUp(h) == (h + 1) \div 2

\* line 226, np.round(y_pred, 0) of a count of halves: to the nearest integer,
\* a half to the even neighbour
RoundHalves(h) ==
    IF h % 2 = 0 THEN h \div 2
    ELSE IF (h \div 2) % 2 = 0 THEN h \div 2 ELSE h \div 2 + 1

RECURSIVE Sum(_)
\* np.sum along axis 1
Sum(row) == IF row = <<>> THEN 0 ELSE Head(row) + Sum(Tail(row))

Abs(x) == IF x < 0 THEN 0 - x ELSE x

\* lines 226-228: |sum(y_true) - sum(round(y_pred))| of one sample
AgeError(sample) ==
    Abs(Sum(sample.labels) -
        Sum([i \in 1..Len(sample.outputs) |-> RoundHalves(sample.outputs[i])]))

\* line 234: y_true == y_pred of one sample, as 0 or 1
Correct(sample) == IF ArgMax(sample.outputs) = sample.labels THEN 1 ELSE 0

\* round(num / den, 4) in units of 1e-4, a half to the even neighbour
Round4(num, den) ==
    LET q == (num * ScoreUnits) \div den
        r == (num * ScoreUnits) % den
    IN  IF 2 * r > den \/ (2 * r = den /\ q % 2 = 1) THEN q + 1 ELSE q

\* lines 224-234: the score of an attribute over the samples gathered
Accuracy(attribute, samples) ==
    IF attribute = "age"
    THEN Round4(Sum([i \in 1..Len(samples) |-> AgeError(samples[i])]), Len(samples))
    ELSE Round4(Sum([i \in 1..Len(samples) |-> Correct(samples[i])]), Len(samples))

\* evaluate_attribute: the (accuracy, loss) it returns; the loss is kept as the
\* arguments config.loss was called with
EvaluateAttribute(attribute, batches, exists, w) ==
    [made |-> TRUE,
     accuracy |-> Accuracy(attribute, AllOutputs(batches)),
     loss |-> LossBatch(batches),
     kw |-> ValLossKw(exists, w)]

\* ------------------------------------------------------------ the program
\* the configurations explored: every combination whose run takes at most
\* MaxSteps training steps
Configs ==
    {c \in [attribute : Attributes, epochs : EpochCounts, trainLen : TrainLens,
            lr_plateau : BOOLEAN, reduce_lr : ReduceLrLists, max_or_min : Modes,
            resume : BOOLEAN, pretrained : BOOLEAN, lr : {InitialLrExp},
            classCounts : {<<3, 1>>}] :
        c.epochs * c.trainLen <= MaxSteps}

\* configurations for the loss bookkeeping: one epoch over a short and over a
\* long training stream (tensorboard_loss_every 1 and 2), several class counts
LossConfigs ==
    [attribute : Attributes, epochs : {1}, trainLen : {2, LongLen},
     lr_plateau : {TRUE}, reduce_lr : {{}}, max_or_min : Modes,
     resume : {FALSE}, pretrained : {FALSE}, lr : {InitialLrExp},
     classCounts : {<<3, 1>>, <<2, 2>>, <<1, 2, 4>>}]

\* the fields and locals of a Train object before line 48 runs
InitObject ==
    /\ pc = "new"
    /\ weights = FALSE
    /\ loads = <<>>
    /\ restored = Fresh
    /\ lr = [g \in ParamGroups |-> cfg.lr]
    /\ sched = NoScheduler
    /\ early_stop = NewEarlyStop(cfg.max_or_min)
    /\ modelMode = "train"
    /\ headMode = "train"
    /\ epoch = 0
    /\ batch = 0
    /\ step = 0
    /\ val_acc = 0
    /\ best_acc = Scalar(0)
    /\ best_step = 0
    /\ updates = 0
    /\ updateModes = <<"train", "train">>
    /\ emitted = <<>>
    /\ ckpt = NoCheckpoint
    /\ nSaves = 0
    /\ evalCount = 0
    /\ evalsBefore = {}
    /\ lastEval = NoEval
    /\ evalAttempts = 0
    /\ lastBranch = "none"
    /\ selfReduces = 0
    /\ schedSteps = 0
    /\ schedLast = 0
    /\ esCalls = 0
    /\ stopEpoch = 0 - 1
    /\ passes = 0
    /\ raisedIn = "none"
    /\ obs = 0
    /\ plateau = NoPlateau
    /\ weightVec = NoWeights
    /\ lossKw = NoLossKw
    /\ valLossKw = NoLossKw
    /\ running_loss = <<>>
    /\ loss_board = NoBoard
    /\ valStream = <<>>
    /\ evalOut = NoEvalOut

\* a Train object about to run lines 48-92 of its constructor
Init ==
    /\ cfg \in Configs
    /\ InitObject

\* the same object for the configurations of LossConfigs
InitLoss ==
    /\ cfg \in LossConfigs
    /\ InitObject

runLocals == <<epoch, batch, step, val_acc, best_acc, best_step>>

lossVars == <<weightVec, lossKw, valLossKw, running_loss, loss_board>>

evalVars == <<valStream, evalOut>>

history == <<updates, updateModes, emitted, ckpt, nSaves, evalCount, evalsBefore,
             lastEval, evalAttempts, lastBranch, selfReduces, schedSteps,
             schedLast, esCalls, stopEpoch, passes, raisedIn>>

\* __init__, lines 48-92: class weights, optimizer, checkpoint loads, scheduler,
\* early-stop monitor
Construct ==
    /\ pc = "new"
    /\ weights' = HasClassWeights(cfg.attribute)
    /\ weightVec' = IF HasClassWeights(cfg.attribute)
                    THEN ClassWeights(cfg.classCounts) ELSE NoWeights
    /\ loads' = LoadCalls(cfg)
    /\ restored' = ApplyLoads(Fresh, LoadCalls(cfg))
    /\ lr' = [g \in ParamGroups |-> cfg.lr]
    /\ sched' = IF cfg.lr_plateau THEN NewScheduler(cfg.max_or_min) ELSE NoScheduler
    /\ early_stop' = NewEarlyStop(cfg.max_or_min)
    /\ pc' = "constructed"
    /\ UNCHANGED <<cfg, modelMode, headMode, runLocals, history, obs, plateau, lossKw,
                   valLossKw, running_loss, loss_board, evalVars>>

\* run(), lines 95-107: training mode, the locals, the first range() test
RunStart ==
    /\ pc = "constructed"
    /\ modelMode' = "train"
    /\ headMode' = "train"
    /\ step' = 0
    /\ val_acc' = 0
    /\ best_step' = 0
    /\ best_acc' = Scalar(InitialBest(cfg.max_or_min))
    /\ running_loss' = <<>>
    /\ epoch' = 0
    /\ batch' = 0
    /\ pc' = IF cfg.epochs > 0 THEN "batch" ELSE "final"
    /\ UNCHANGED <<cfg, weights, loads, restored, lr, sched, early_stop, history, obs,
                   plateau, weightVec, lossKw, valLossKw, loss_board, evalVars>>

\* line 139 with an increment of two
NextStep_Twice(s) == s + 2

\* line 139: step += 1
NextStep(s) == s + 1

\* line 149 without the break
BreakOnStop_Never(es) == FALSE

\* line 149: the epoch loop breaks
BreakOnStop(es) == es.stop

\* the checkpoint save_state writes (line 162)
Checkpoint(score, s, u, final) ==
    [exists |-> TRUE, score |-> score, step |-> s, updates |-> u, final |-> final]

\* what evaluate(step) and save_model emit, each keyed by the step they are given
EvalEvents(s, u, saved, inloop) ==
    <<Event("val_acc", s, u, inloop), Event("val_loss", s, u, inloop)>> \o
    (IF saved THEN <<Event("checkpoint", s, u, inloop)>> ELSE <<>>)

\* one iteration of the batch loop, lines 109-141: the optimizer update, the
\* train_loss event, the in-loop evaluation with its checkpoint, step += 1.
\* For recognition evaluate() raises after evaluate_recognition set model.eval().
TrainStep ==
    /\ pc = "batch"
    /\ batch < cfg.trainLen
    /\ \E s \in Scores :
        LET u == updates + 1
            due == EvalDue(step, cfg.trainLen)
            crash == due /\ cfg.attribute = "recognition"
            done == due /\ ~crash
            sm == SaveModel(cfg.max_or_min, s, best_acc.acc, step, best_step)
            board == TensorboardDue(step, cfg.trainLen)
            sum == AddLoss(running_loss, u)
        IN  /\ updates' = u
            /\ lossKw' = TrainLossKw(weights, weightVec)
            /\ running_loss' = IF board THEN <<>> ELSE sum
            /\ loss_board' = IF board
                             THEN LossBoard(sum, TensorboardEvery(cfg.trainLen))
                             ELSE loss_board
            /\ valLossKw' = IF done THEN ValLossKw(weights, weightVec) ELSE valLossKw
            /\ updateModes' = <<modelMode, headMode>>
            /\ emitted' =
                 (IF TensorboardDue(step, cfg.trainLen)
                  THEN <<Event("train_loss", step, u, TRUE)>> ELSE <<>>) \o
                 (IF done THEN EvalEvents(step, u, sm.saved, TRUE) ELSE <<>>)
            /\ evalAttempts' = IF due THEN evalAttempts + 1 ELSE evalAttempts
            /\ modelMode' = IF crash THEN "eval" ELSE IF done THEN "train" ELSE modelMode
            /\ headMode' = IF done THEN "train" ELSE headMode
            /\ val_acc' = IF done THEN s ELSE val_acc
            /\ best_acc' = IF done THEN Scalar(sm.best_acc) ELSE best_acc
            /\ best_step' = IF done THEN sm.best_step ELSE best_step
            /\ ckpt' = IF done /\ sm.saved THEN Checkpoint(s, step, u, FALSE) ELSE ckpt
            /\ nSaves' = IF done /\ sm.saved THEN nSaves + 1 ELSE nSaves
            /\ evalCount' = IF done THEN evalCount + 1 ELSE evalCount
            /\ evalsBefore' = IF done /\ evalCount > 0
                              THEN evalsBefore \cup {lastEval.score} ELSE evalsBefore
            /\ lastEval' = IF done
                           THEN [score |-> s, step |-> step, saved |-> sm.saved,
                                 final |-> FALSE, modes |-> EvaluateAttributeModes]
                           ELSE lastEval
            /\ step' = IF crash THEN step ELSE NextStep(step)
            /\ batch' = batch + 1
            /\ pc' = IF crash THEN "error" ELSE "batch"
            /\ raisedIn' = IF crash THEN "train_step" ELSE raisedIn
    /\ UNCHANGED <<cfg, weights, loads, restored, lr, sched, early_stop, epoch,
                   lastBranch, selfReduces, schedSteps, schedLast, esCalls,
                   stopEpoch, passes, obs, plateau, weightVec, evalVars>>

\* the end of an epoch, lines 143-151 and the next range() test: the fixed
\* reduction or scheduler.step(val_acc), which raises AttributeError when no
\* scheduler was constructed; then early_stop(val_acc) and the break
EndOfEpoch ==
    /\ pc = "batch"
    /\ batch = cfg.trainLen
    /\ LET fixed == UseFixedReduction(epoch, cfg)
           crash == ~fixed /\ ~sched.exists
           st == SchedStep(sched, val_acc)
           stepped == ~fixed /\ ~crash
           es == EarlyStopCall(early_stop, val_acc)
           goOn == ~crash /\ ~BreakOnStop(es) /\ epoch + 1 < cfg.epochs
       IN  /\ lr' = IF fixed THEN ReduceLr(lr)
                    ELSE IF stepped /\ st.reduce THEN SchedReduceLr(lr) ELSE lr
           /\ sched' = IF stepped THEN st.sched ELSE sched
           /\ lastBranch' = IF fixed THEN "fixed" ELSE "plateau"
           /\ selfReduces' = IF fixed THEN selfReduces + 1 ELSE selfReduces
           /\ schedSteps' = IF stepped THEN schedSteps + 1 ELSE schedSteps
           /\ schedLast' = IF stepped THEN val_acc ELSE schedLast
           /\ early_stop' = IF crash THEN early_stop ELSE es
           /\ esCalls' = IF crash THEN esCalls ELSE esCalls + 1
           /\ stopEpoch' = IF ~crash /\ es.stop /\ stopEpoch < 0 THEN epoch ELSE stopEpoch
           /\ pc' = IF crash THEN "error" ELSE IF goOn THEN "batch" ELSE "final"
           /\ raisedIn' = IF crash THEN "end_of_epoch" ELSE raisedIn
           /\ epoch' = IF goOn THEN epoch + 1 ELSE epoch
           /\ batch' = IF goOn THEN 0 ELSE batch
    /\ passes' = passes + 1
    /\ emitted' = <<>>
    /\ UNCHANGED <<cfg, weights, loads, restored, modelMode, headMode, step, val_acc,
                   best_acc, best_step, updates, updateModes, ckpt, nSaves,
                   evalCount, evalsBefore, lastEval, evalAttempts, obs, plateau,
                   lossVars, evalVars>>

\* after the loop, lines 153-155: the final evaluation and save_model, whose
\* pair is assigned to best_acc alone
FinalEval ==
    /\ pc = "final"
    /\ \E s \in Scores :
        LET crash == cfg.attribute = "recognition"
            sm == SaveModel(cfg.max_or_min, s, best_acc.acc, step, best_step)
        IN  /\ evalAttempts' = evalAttempts + 1
            /\ modelMode' = "eval"
            /\ headMode' = IF crash THEN headMode ELSE EvaluateAttributeModes[2]
            /\ emitted' = IF crash THEN <<>> ELSE EvalEvents(step, updates, sm.saved, FALSE)
            /\ val_acc' = IF crash THEN val_acc ELSE s
            /\ best_acc' = IF crash THEN best_acc
                           ELSE [pair |-> TRUE, acc |-> sm.best_acc, step |-> sm.best_step]
            /\ ckpt' = IF ~crash /\ sm.saved THEN Checkpoint(s, step, updates, TRUE) ELSE ckpt
            /\ nSaves' = IF ~crash /\ sm.saved THEN nSaves + 1 ELSE nSaves
            /\ evalCount' = IF crash THEN evalCount ELSE evalCount + 1
            /\ evalsBefore' = IF ~crash /\ evalCount > 0
                              THEN evalsBefore \cup {lastEval.score} ELSE evalsBefore
            /\ lastEval' = IF crash THEN lastEval
                           ELSE [score |-> s, step |-> step, saved |-> sm.saved,
                                 final |-> TRUE, modes |-> EvaluateAttributeModes]
            /\ pc' = IF crash THEN "error" ELSE "done"
            /\ raisedIn' = IF crash THEN "final" ELSE raisedIn
            /\ valLossKw' = IF crash THEN valLossKw ELSE ValLossKw(weights, weightVec)
    /\ UNCHANGED <<cfg, weights, loads, restored, lr, sched, early_stop, epoch, batch,
                   step, best_step, updates, updateModes, lastBranch, selfReduces,
                   schedSteps, schedLast, esCalls, stopEpoch, passes, obs, plateau,
                   weightVec, lossKw, running_loss, loss_board, evalVars>>

\* ---- the scheduler alone, driven as line 146 drives it, with any score sequence
InitScheduler ==
    /\ cfg \in {c \in Configs : c.lr_plateau /\ c.attribute = "gender" /\ c.epochs = 0
                               /\ c.trainLen = 1 /\ c.reduce_lr = {}
                               /\ ~c.resume /\ ~c.pretrained}
    /\ pc = "scheduler"
    /\ weights = TRUE
    /\ loads = <<>>
    /\ restored = Fresh
    /\ lr \in {[g \in ParamGroups |-> e] : e \in {cfg.lr, SchedEpsExp - 1}}
    /\ sched = NewScheduler(cfg.max_or_min)
    /\ early_stop = NewEarlyStop(cfg.max_or_min)
    /\ modelMode = "train"
    /\ headMode = "train"
    /\ epoch = 0
    /\ batch = 0
    /\ step = 0
    /\ val_acc = 0
    /\ best_acc = Scalar(0)
    /\ best_step = 0
    /\ updates = 0
    /\ updateModes = <<"train", "train">>
    /\ emitted = <<>>
    /\ ckpt = NoCheckpoint
    /\ nSaves = 0
    /\ evalCount = 0
    /\ evalsBefore = {}
    /\ lastEval = NoEval
    /\ evalAttempts = 0
    /\ lastBranch = "none"
    /\ selfReduces = 0
    /\ schedSteps = 0
    /\ schedLast = 0
    /\ esCalls = 0
    /\ stopEpoch = 0 - 1
    /\ passes = 0
    /\ raisedIn = "none"
    /\ obs = 0
    /\ plateau = NoPlateau
    /\ weightVec = NoWeights
    /\ lossKw = NoLossKw
    /\ valLossKw = NoLossKw
    /\ running_loss = <<>>
    /\ loss_board = NoBoard
    /\ valStream = <<>>
    /\ evalOut = NoEvalOut

\* line 146 alone: self.scheduler.step(val_acc) with the score s
SchedulerObserve ==
    /\ pc = "scheduler"
    /\ obs < MaxObs
    /\ \E s \in Scores :
        LET st == SchedStep(sched, s)
            improving == \A e \in plateau.seen :
                            IF cfg.max_or_min = "max" THEN s > e ELSE s < e
        IN  /\ val_acc' = s
            /\ sched' = st.sched
            /\ lr' = IF st.reduce THEN SchedReduceLr(lr) ELSE lr
            /\ schedSteps' = schedSteps + 1
            /\ schedLast' = s
            /\ plateau' =
                 [seen |-> plateau.seen \cup {s},
                  stale |-> IF improving THEN 0 ELSE plateau.stale + 1,
                  reduced |-> (IF improving THEN 0 ELSE plateau.reduced) +
                              (IF st.reduce THEN 1 ELSE 0),
                  total |-> plateau.total + (IF st.reduce THEN 1 ELSE 0)]
    /\ obs' = obs + 1
    /\ UNCHANGED <<cfg, pc, weights, loads, restored, early_stop, modelMode, headMode,
                   epoch, batch, step, best_acc, best_step, updates, updateModes,
                   emitted, ckpt, nSaves, evalCount, evalsBefore, lastEval,
                   evalAttempts, lastBranch, selfReduces, esCalls, stopEpoch, passes,
                   raisedIn, lossVars, evalVars>>

NextScheduler == SchedulerObserve

SpecScheduler == InitScheduler /\ [][NextScheduler]_vars

\* ---- evaluate_attribute alone, on any validation stream
\* the samples a validation stream is made of
ValSamples(attribute) ==
    IF attribute = "age"
    THEN {[outputs |-> <<1, 1>>, labels |-> <<1, 0>>],
          [outputs |-> <<5, 3>>, labels |-> <<1, 1>>]}
    ELSE IF attribute = "race"
    THEN {[outputs |-> <<3, 0, 1>>, labels |-> 0],
          [outputs |-> <<0, 2, 1>>, labels |-> 2]}
    ELSE {[outputs |-> <<1, 3>>, labels |-> 1],
          [outputs |-> <<3, 1>>, labels |-> 1]}

ValBatchSizes == {3, 4}

\* iter(self.val_loader): the samples in batches of size, the last one shorter
Batches(samples, size) ==
    [b \in 1..((Len(samples) + size - 1) \div size) |->
        SubSeq(samples, (b - 1) * size + 1,
               IF b * size <= Len(samples) THEN b * size ELSE Len(samples))]

\* every non-empty validation stream of at most MaxValLen samples
ValStreams(attribute) ==
    {Batches(s, size) :
        s \in UNION {[1..n -> ValSamples(attribute)] : n \in 1..MaxValLen},
        size \in ValBatchSizes}

EvalConfigs ==
    [attribute : {"gender", "race", "age"}, epochs : {0}, trainLen : {1},
     lr_plateau : {TRUE}, reduce_lr : {{}}, max_or_min : {"max"},
     resume : {FALSE}, pretrained : {FALSE}, lr : {InitialLrExp},
     classCounts : {<<3, 1>>}]

\* a constructed Train object whose evaluate_attribute is about to be called
InitEvaluate ==
    /\ cfg \in EvalConfigs
    /\ pc = "evaluate"
    /\ weights = HasClassWeights(cfg.attribute)
    /\ loads = <<>>
    /\ restored = Fresh
    /\ lr = [g \in ParamGroups |-> cfg.lr]
    /\ sched = NewScheduler(cfg.max_or_min)
    /\ early_stop = NewEarlyStop(cfg.max_or_min)
    /\ modelMode = "train"
    /\ headMode = "train"
    /\ epoch = 0
    /\ batch = 0
    /\ step = 0
    /\ val_acc = 0
    /\ best_acc = Scalar(0)
    /\ best_step = 0
    /\ updates = 0
    /\ updateModes = <<"train", "train">>
    /\ emitted = <<>>
    /\ ckpt = NoCheckpoint
    /\ nSaves = 0
    /\ evalCount = 0
    /\ evalsBefore = {}
    /\ lastEval = NoEval
    /\ evalAttempts = 0
    /\ lastBranch = "none"
    /\ selfReduces = 0
    /\ schedSteps = 0
    /\ schedLast = 0
    /\ esCalls = 0
    /\ stopEpoch = 0 - 1
    /\ passes = 0
    /\ raisedIn = "none"
    /\ obs = 0
    /\ plateau = NoPlateau
    /\ weightVec = IF HasClassWeights(cfg.attribute)
                   THEN ClassWeights(cfg.classCounts) ELSE NoWeights
    /\ lossKw = NoLossKw
    /\ valLossKw = NoLossKw
    /\ running_loss = <<>>
    /\ loss_board = NoBoard
    /\ valStream \in ValStreams(cfg.attribute)
    /\ evalOut = NoEvalOut

\* evaluate_attribute(), lines 199-236, on the stream valStream
EvaluateAttributeCall ==
    /\ pc = "evaluate"
    /\ modelMode' = EvaluateAttributeModes[1]
    /\ headMode' = EvaluateAttributeModes[2]
    /\ evalOut' = EvaluateAttribute(cfg.attribute, valStream, weights, weightVec)
    /\ valLossKw' = ValLossKw(weights, weightVec)
    /\ pc' = "evaluated"
    /\ UNCHANGED <<cfg, weights, loads, restored, lr, sched, early_stop, runLocals,
                   history, obs, plateau, weightVec, lossKw, running_loss,
                   loss_board, valStream>>

NextEvaluate == EvaluateAttributeCall

SpecEvaluate == InitEvaluate /\ [][NextEvaluate]_vars

Next ==
    \/ Construct
    \/ RunStart
    \/ TrainStep
    \/ EndOfEpoch
    \/ FinalEval

Spec == Init /\ [][Next]_vars

SpecLoss == InitLoss /\ [][Next]_vars

\* ------------------------------------------------------------ the claims

\* C1 (as stated): run() terminates normally under either learning-rate policy:
\* an attribute run never raises, least of all at an end of epoch, and a finished
\* run made epochs passes over the training stream, or k+1 when the early-stop
\* monitor first signalled stop at the end of epoch k.
C1_RunTerminatesNormally ==
    /\ raisedIn # "end_of_epoch"
    /\ cfg.attribute # "recognition" => pc # "error"
    /\ pc = "done" =>
         passes = (IF stopEpoch >= 0 THEN stopEpoch + 1 ELSE cfg.epochs)

C3_StepEqualsUpdatesAtEveryRead ==
    /\ \A i \in 1..Len(emitted) : emitted[i].step = emitted[i].updates
    /\ ckpt.exists => ckpt.step = ckpt.updates

\* C3 (amended): step never decreases and grows by one with every completed
\* training step; it equals the number of optimizer updates at every batch
\* boundary and in the final evaluation and checkpoint; inside the loop body,
\* where line 139 has not yet run, every read of step (cadence checks, event
\* keys, in-loop checkpoints) sees the number of updates minus one.
C3_StepCountsUpdates ==
    /\ [](/\ pc \in {"batch", "final", "done"} => step = updates
          /\ \A i \in 1..Len(emitted) :
               emitted[i].step =
                 emitted[i].updates - (IF emitted[i].inloop THEN 1 ELSE 0)
          /\ ckpt.exists => ckpt.step = ckpt.updates - (IF ckpt.final THEN 0 ELSE 1))
    /\ [][/\ step' >= step
          /\ (updates' # updates /\ pc' = "batch") => step' = step + 1
          /\ updates' = updates => step' = step]_vars

C3_Witness ==
    /\ ckpt.exists /\ ~ckpt.final
    /\ ckpt.step = 2 /\ ckpt.updates = 3
    /\ pc = "batch" /\ step = 3
    /\ Len(emitted) = 4

C5_SaveIffStrictlyBetter ==
    evalCount > 0 =>
      /\ lastEval.saved <=>
           \A e \in evalsBefore :
              IF cfg.max_or_min = "max" THEN lastEval.score > e
                                        ELSE lastEval.score < e
      /\ lastEval.saved =>
           /\ ckpt.exists
           /\ ckpt.score = lastEval.score
           /\ ckpt.step = lastEval.step
      /\ nSaves <= evalCount
      /\ nSaves >= 1

\* scores 0.5, 0.6, 0.55 under max: saved at evaluations 1 and 2, not at 3
C5_Witness ==
    /\ cfg.max_or_min = "max"
    /\ cfg.trainLen = 1
    /\ evalCount = 3
    /\ evalsBefore = {5000, 6000}
    /\ lastEval.score = 5500 /\ ~lastEval.saved
    /\ nSaves = 2
    /\ ckpt.score = 6000 /\ ckpt.step = 2

\* C6 (as stated): once the early-stop monitor signalled stop no training step
\* follows, and every run whose epoch loop ended, by exhausting the epochs or
\* by early stop, performs one validation pass and one improvement check after
\* the last training step.
C6_FinalPassAfterLoop ==
    /\ early_stop.stop => pc \in {"final", "done"}
    /\ raisedIn # "final"
    /\ pc = "done" => lastEval.final /\ lastEval.step = updates

\* C7: the early-stop monitor is called once for each epoch that ended, with
\* the latest validation score; stop is false while the stall count is at most
\* the patience, becomes true at the first call that takes the stall count above
\* it, and from then on no further call is made and stop stays true.
C7_EarlyStopTerminal ==
    /\ raisedIn # "end_of_epoch" => esCalls = passes
    /\ early_stop.stop <=> stopEpoch >= 0
    /\ ~early_stop.stop => early_stop.stall <= EarlyStopPatience
    /\ early_stop.stop =>
         /\ early_stop.stall = EarlyStopPatience + 1
         /\ esCalls = stopEpoch + 1
         /\ pc \in {"final", "done", "error"}
         /\ raisedIn \in {"none", "final"}

C7_Witness ==
    /\ early_stop.stop
    /\ pc = "done"
    /\ passes < cfg.epochs
    /\ esCalls = EarlyStopPatience + 2

\* C8 (as stated): on a run of patience+1 = 4 or more scores without improvement
\* the learning rate is multiplied by 0.1 exactly once.
C8_ReducedExactlyOnce ==
    plateau.stale >= 4 => plateau.reduced = 1

\* C8 (amended): on a run of n scores without improvement the learning rate has
\* been multiplied by 0.1 at the 4th of them and again at every 5th after it
\* (the 9th, the 14th, ...): after a reduction the scheduler is in cooldown for
\* exactly the next one score and reduces again no sooner than 5 scores later.
\* A reduction changes a group's rate only while the change exceeds eps = 1e-8.
C8_ReducedEveryFifth ==
    /\ plateau.reduced = (plateau.stale + 1) \div 5
    /\ sched.cooldown_counter \in {0, 1}
    /\ sched.cooldown_counter = 1 <=> (plateau.stale >= 4 /\ (plateau.stale + 1) % 5 = 0)
    /\ pc = "scheduler" =>
         \E e0 \in {cfg.lr, 7} : \A g \in ParamGroups :
            lr[g] = (IF e0 + plateau.total <= 8 THEN e0 + plateau.total ELSE 8)

C8_Witness ==
    /\ pc = "scheduler"
    /\ plateau.stale = 9
    /\ plateau.reduced = 2
    /\ sched.cooldown_counter = 1
    /\ \A g \in ParamGroups : lr[g] = cfg.lr + 2

\* C9 (as stated): whatever resume and pretrained are, the constructor reads a
\* checkpoint at most once.
C9_CheckpointReadAtMostOnce ==
    Len(loads) <= 1

\* C10 (as stated): a resume load restores model, head and optimizer and is
\* made with restore_optimizer true; a pretrained load restores model and head
\* only, leaves the optimizer as it was, and is made with restore_optimizer false.
C10_LoadRestores ==
    pc # "new" =>
      /\ cfg.resume =>
           /\ \E i \in 1..Len(loads) : loads[i].path = "resume" /\ loads[i].flag
           /\ restored.optimizer = "resume"
           /\ ~cfg.pretrained => restored.model = "resume" /\ restored.head = "resume"
      /\ cfg.pretrained =>
           /\ \E i \in 1..Len(loads) : loads[i].path = "pretrained" /\ ~loads[i].flag
           /\ restored.model = "pretrained" /\ restored.head = "pretrained"
           /\ ~cfg.resume => restored.optimizer = "fresh"

\* C11: the direction of "best score" is fixed for the whole run and is the same
\* value in the checkpoint improvement test, in the plateau controller and in
\* the early-stop monitor; under either direction the initial best score is one
\* that every score improves on, so the first evaluation of a run writes a
\* checkpoint, and from then on the best score is the extreme, under that
\* direction, of the scores evaluated so far.
C11_OneDirection ==
    /\ [](/\ cfg.max_or_min \in {"max", "min"}
          /\ early_stop.mode = cfg.max_or_min
          /\ sched.exists => sched.mode = cfg.max_or_min
          /\ (pc \in {"batch", "final"} /\ evalCount = 0) =>
                \A s \in Scores :
                   IF cfg.max_or_min = "max" THEN s > best_acc.acc
                                             ELSE s < best_acc.acc
          /\ evalCount = 1 => lastEval.saved /\ nSaves = 1
          /\ evalCount > 0 =>
                /\ best_acc.acc \in evalsBefore \cup {lastEval.score}
                /\ \A e \in evalsBefore \cup {lastEval.score} :
                      IF cfg.max_or_min = "max" THEN best_acc.acc >= e
                                                ELSE best_acc.acc <= e)
    /\ [][/\ cfg'.max_or_min = cfg.max_or_min
          /\ early_stop'.mode = early_stop.mode
          /\ sched.exists => sched'.mode = sched.mode]_vars

C11_Witness ==
    /\ cfg.max_or_min = "max"
    /\ sched.exists /\ schedSteps = 2
    /\ evalCount = 2
    /\ lastEval.score = 5000 /\ ~lastEval.saved
    /\ best_acc.acc = 6000
    /\ ckpt.score = 6000

\* C14 (as stated): at every point of run(), the end of the final pass included,
\* the best score is a single scalar and the tracked pair (best score, best
\* step) is the (score, step) of the most recently saved checkpoint, so the
\* pair reported at line 155 is that checkpoint's.
C14_BestPairIsLastCheckpoint ==
    /\ ~best_acc.pair
    /\ ckpt.exists => best_acc.acc = ckpt.score /\ best_step = ckpt.step

\* C15 (as stated): every score passed at the end of an epoch to
\* scheduler.step or to the early-stop monitor was returned by a validation
\* pass made earlier in the same run, never the placeholder of line 99,
\* whatever the length of the training stream and the direction.
C15_ScoresComeFromEvaluations ==
    /\ esCalls > 0 => evalCount > 0
    /\ schedSteps > 0 =>
         /\ evalCount > 0
         /\ schedLast \in evalsBefore \cup {lastEval.score}

\* C16 (as stated): in a recognition run every evaluation that is started
\* completes without raising and returns a score (the average of the three
\* per-dataset accuracies), so every evaluation attempted is an evaluation
\* completed and none leaves the run in error.
C16_RecognitionEvaluates ==
    cfg.attribute = "recognition" =>
      /\ raisedIn \notin {"train_step", "final"}
      /\ evalCount = evalAttempts

\* C17: the class-weight vector exists exactly when the attribute is gender or
\* race; the constructor computes it as max(class count) / class count for each
\* class and nothing changes it afterwards; every training loss and every
\* validation loss is given the vector as its weight exactly when the vector
\* exists, and no weight otherwise.
C17_ClassWeights ==
    /\ [](pc # "new" =>
            /\ weights <=> cfg.attribute \in {"race", "gender"}
            /\ weights <=> weightVec # <<>>
            /\ weights =>
                 /\ Len(weightVec) = Len(cfg.classCounts)
                 /\ \A i \in 1..Len(weightVec) :
                      /\ weightVec[i].den = cfg.classCounts[i]
                      /\ \E j \in 1..Len(weightVec) :
                            weightVec[i].num = cfg.classCounts[j]
                      /\ \A j \in 1..Len(weightVec) :
                            weightVec[i].num >= cfg.classCounts[j]
            /\ updates > 0 =>
                 /\ lossKw.made
                 /\ lossKw.given <=> weights
                 /\ lossKw.weight = weightVec
            /\ evalCount > 0 =>
                 /\ valLossKw.made
                 /\ valLossKw.given <=> weights
                 /\ valLossKw.weight = weightVec)
    /\ [][pc # "new" => weights' = weights /\ weightVec' = weightVec]_vars

\* race with class counts 1, 2, 4: weights 4, 2, 1 in a training and a validation loss
C17_Witness ==
    /\ cfg.attribute = "race"
    /\ cfg.classCounts = <<1, 2, 4>>
    /\ weightVec = <<[num |-> 4, den |-> 1], [num |-> 4, den |-> 2], [num |-> 4, den |-> 4]>>
    /\ updates = 2
    /\ lossKw.given /\ lossKw.weight = weightVec
    /\ evalCount = 1
    /\ valLossKw.given /\ valLossKw.weight = weightVec

\* C19 (as stated): every train_loss event is the mean of the per-batch losses
\* of the training steps since the previous train_loss event: when the
\* accumulator is divided by tensorboard_loss_every = max(len // 100, 1) it
\* holds exactly that many batch losses, and it is empty after each emission.
C19_TrainLossIsMean ==
    loss_board.divisor > 0 =>
      /\ loss_board.divisor =
           (IF cfg.trainLen \div 100 >= 1 THEN cfg.trainLen \div 100 ELSE 1)
      /\ Len(loss_board.terms) = loss_board.divisor
      /\ Len(emitted) > 0 /\ emitted[1].key = "train_loss" => running_loss = <<>>

\* C12: for gender and race the score of a validation pass is the number of
\* samples of the whole stream whose greatest logit is the one of their label,
\* divided by the number of samples of the whole stream, rounded to 4 decimals
\* (so within half of 1e-4 of the exact fraction); it lies in [0, 1]; 10 samples
\* with 6 correct give 0.6000.
C12_AccuracyIsCorrectFraction ==
    (pc = "evaluated" /\ cfg.attribute \in {"gender", "race"}) =>
      LET idx == {p \in (1..Len(valStream)) \X (1..MaxValLen) :
                     p[2] <= Len(valStream[p[1]])}
          hit(p) == LET s == valStream[p[1]][p[2]]
                    IN  \A j \in 1..Len(s.outputs) :
                           j # s.labels + 1 => s.outputs[j] < s.outputs[s.labels + 1]
          n == Cardinality(idx)
          c == Cardinality({p \in idx : hit(p)})
          d == 10000 * c - evalOut.accuracy * n
      IN  /\ evalOut.made
          /\ evalOut.accuracy \in 0..10000
          /\ 2 * d <= n /\ 0 - 2 * d <= n
          /\ (n = 10 /\ c = 6) => evalOut.accuracy = 6000

\* 10 gender samples in batches of 4, 4 and 2, 6 of them correct
C12_Witness ==
    /\ pc = "evaluated"
    /\ cfg.attribute = "gender"
    /\ Len(valStream) = 3 /\ Len(valStream[3]) = 2
    /\ Cardinality({p \in (1..3) \X (1..4) :
          /\ p[2] <= Len(valStream[p[1]])
          /\ valStream[p[1]][p[2]].outputs = <<1, 3>>}) = 6
    /\ evalOut.accuracy = 6000

\* C13: for age the score is the mean over the samples of the whole stream of
\* |sum(labels) - sum(round(outputs))|, every output dimension rounded to the
\* nearest integer before the sum, a half-way value to the even neighbour as
\* np.round does (2.5 to 2, 1.5 to 2, 0.5 to 0); the mean is rounded to 4
\* decimals.
C13_AgeMeanAbsoluteError ==
    (pc = "evaluated" /\ cfg.attribute = "age") =>
      LET idx == {p \in (1..Len(valStream)) \X (1..MaxValLen) :
                     p[2] <= Len(valStream[p[1]])}
          near(h) == CHOOSE r \in 0..h :
                        /\ 2 * r - h \in {0 - 1, 0, 1}
                        /\ 2 * r # h => r % 2 = 0
          gap(p) == LET s == valStream[p[1]][p[2]]
                        x == s.labels[1] + s.labels[2] -
                             (near(s.outputs[1]) + near(s.outputs[2]))
                    IN  IF x < 0 THEN 0 - x ELSE x
          n == Cardinality(idx)
          e == Cardinality({q \in idx \X (1..MaxValLen) : q[2] <= gap(q[1])})
          d == 10000 * e - evalOut.accuracy * n
      IN  /\ evalOut.made
          /\ 2 * d <= n /\ 0 - 2 * d <= n

\* outputs (0.5, 0.5), (2.5, 1.5), (0.5, 0.5) round to sums 0, 4, 0 against
\* label sums 1, 2, 1: errors 1, 2, 1 and the score 1.3333
C13_Witness ==
    /\ pc = "evaluated"
    /\ cfg.attribute = "age"
    /\ valStream = <<
         <<[outputs |-> <<1, 1>>, labels |-> <<1, 0>>],
           [outputs |-> <<5, 3>>, labels |-> <<1, 1>>],
           [outputs |-> <<1, 1>>, labels |-> <<1, 0>>]>> >>
    /\ evalOut.accuracy = 13333

\* C18: the validation loss evaluate_attribute returns is the loss of the last
\* validation batch alone: a stream with any other batch before the same last
\* batch yields the same loss, while the score is that of all the samples,
\* however they are split into batches.
C18_LossOfLastBatchOnly ==
    pc = "evaluated" =>
      LET last == valStream[Len(valStream)]
      IN  /\ evalOut.loss = last
          /\ \A b \in [1..2 -> ValSamples(cfg.attribute)] :
                LET other == EvaluateAttribute(cfg.attribute, <<b, last>>,
                                               weights, weightVec)
                IN  other.loss = evalOut.loss /\ other.kw = evalOut.kw
          /\ evalOut.accuracy =
               EvaluateAttribute(cfg.attribute, <<Cat(valStream)>>,
                                 weights, weightVec).accuracy

\* two streams with the same last batch, different scores and the same loss
C18_Witness ==
    /\ pc = "evaluated"
    /\ Len(valStream) = 2
    /\ \E b \in [1..2 -> ValSamples(cfg.attribute)] :
          LET other == EvaluateAttribute(cfg.attribute,
                                         <<b, valStream[2]>>, weights, weightVec)
          IN  /\ other.accuracy # evalOut.accuracy
              /\ other.loss = evalOut.loss
              /\ <<b>> # SubSeq(valStream, 1, 1)

====
